---- MODULE Spec2Model ----
(***************************************************************************)
(* Model of src/hotspot/cpu/x86/nativeInst_x86.hpp: typed views over raw   *)
(* x86 instruction bytes and the operations that read and patch them.      *)
(*                                                                         *)
(* Memory is a byte array indexed by the offset from the view's address    *)
(* (`this`).  64-bit quantities (address, intptr_t) are little-endian      *)
(* sequences of 8 bytes and 32-bit quantities (jint) of 4 bytes, so that   *)
(* every addition, subtraction, truncation and sign extension keeps the    *)
(* width it has in the code.                                               *)
(***************************************************************************)
EXTENDS Integers, Sequences, FiniteSets, TLC

VARIABLES
    kind,        \* which Variant view the caller constructed over the buffer
    base,        \* the view's address: `this`, 8 bytes
    mem,         \* the code buffer: offset from base -> byte
    debug,       \* TRUE in a build that defines ASSERT
    status,      \* "ok", or "fatal" once guarantee/assert/fatal ended the VM
    log,         \* store and wrote(offset) events, in program order
    hist,        \* the operations performed so far, with argument and result
    oopmap_slot, \* caller's out-parameters of NativePostCallNop::decode
    cb_offset,
    flags,       \* classifier predicates found true of the bytes at base
    code_buffer, \* replace_mt_safe: the replacement instruction
    old_code,    \* replace_mt_safe: the instruction installed before the patch
    todo,        \* replace_mt_safe: the patcher's remaining steps
    fetched      \* replace_mt_safe: what each reader last fetched

vars == <<kind, base, mem, debug, status, log, hist, oopmap_slot, cb_offset,
          flags, code_buffer, old_code, todo, fetched>>

-----------------------------------------------------------------------------
(* Bounds of the model.                                                    *)

\* Operations performed on one view in one run.
MaxOps == 2
\* Concurrent readers of a site that is being replaced.
NReaders == 2
\* The modelled window of the code buffer: bytes before and from the view's address.
BytesBefore == 1
BytesFrom == 13

-----------------------------------------------------------------------------
(* Fixed-width two's-complement arithmetic on little-endian byte sequences *)

Byte == 0..255

RECURSIVE AddC(_, _, _)
AddC(x, y, c) ==
    IF x = <<>> THEN <<>>
    ELSE LET s == x[1] + y[1] + c
         IN  <<s % 256>> \o AddC(Tail(x), Tail(y), s \div 256)

\* x + y modulo 2^(8 * Len(x))
AddB(x, y) == AddC(x, y, 0)

NotB(x) == [i \in 1..Len(x) |-> 255 - x[i]]

RECURSIVE Nat2B(_, _)
Nat2B(n, len) ==
    IF len = 0 THEN <<>> ELSE <<n % 256>> \o Nat2B(n \div 256, len - 1)

\* -x modulo 2^(8 * Len(x))
NegB(x) == AddB(NotB(x), Nat2B(1, Len(x)))

SubB(x, y) == AddB(x, NegB(y))

\* The len-byte two's-complement encoding of a small integer.
Int2B(n, len) == IF n >= 0 THEN Nat2B(n, len) ELSE NegB(Nat2B(-n, len))

IsNegB(x) == x[Len(x)] >= 128

\* (intptr_t)(jint) of 4 bytes: sign extension to 8 bytes.
SExt(x) == x \o (IF IsNegB(x) THEN <<255, 255, 255, 255>> ELSE <<0, 0, 0, 0>>)

\* (jint) of an intptr_t: the low 4 bytes.
Trunc32(x) == SubSeq(x, 1, 4)

\* labs(): the magnitude of a signed 8-byte value.
labs(x) == IF IsNegB(x) THEN NegB(x) ELSE x

\* x & 0xFFFFFFFF00000000
MaskHigh32(x) == <<0, 0, 0, 0>> \o SubSeq(x, 5, 8)

\* The value of a signed 4-byte quantity as an integer.
ToInt32(x) ==
    x[1] + 256 * x[2] + 65536 * x[3]
      + 16777216 * (IF x[4] >= 128 THEN x[4] - 256 ELSE x[4])

\* Whether a signed 8-byte value lies in [-2^31, 2^31 - 1].
InRange32(x) ==
    \/ x[4] <  128 /\ \A i \in 5..8 : x[i] = 0
    \/ x[4] >= 128 /\ \A i \in 5..8 : x[i] = 255

-----------------------------------------------------------------------------
(* The instruction view                                                    *)

Offsets == (0 - BytesBefore)..(BytesFrom - 1)

addr_at(offset) == AddB(base, Int2B(offset, 8))

ubyte_at(offset) == mem[offset]

int_at(offset) == [i \in 1..4 |-> mem[offset + i - 1]]

ptr_at(offset) == [i \in 1..8 |-> mem[offset + i - 1]]

\* m with the bytes of v stored at offset .. offset + Len(v) - 1.
StoreBytes(m, offset, v) ==
    [k \in DOMAIN m |->
        IF k >= offset /\ k < offset + Len(v) THEN v[k - offset + 1] ELSE m[k]]

Store(offset, width) == [ev |-> "store", off |-> offset, width |-> width]
Wrote(offset)        == [ev |-> "wrote", off |-> offset, width |-> 0]

\* What an operation does: the memory it leaves, the events it emits in order,
\* and whether it ended in a fatal error.
Eff(m, events) == [fatal |-> FALSE, mem |-> m, ev |-> events]
FatalEff       == [fatal |-> TRUE,  mem |-> mem, ev |-> <<>>]
NoEff          == Eff(mem, <<>>)

\* nativeInst_x86.hpp:83-86.  The store, then the cache-coherency hook.
set_char_at(offset, c) ==
    Eff(StoreBytes(mem, offset, <<c>>), <<Store(offset, 1), Wrote(offset)>>)

\* Mutant: the store without the hook.
set_int_at_unhooked(offset, i) ==
    Eff(StoreBytes(mem, offset, i), <<Store(offset, 4)>>)

set_int_at(offset, i) ==
    Eff(StoreBytes(mem, offset, i), <<Store(offset, 4), Wrote(offset)>>)

set_ptr_at(offset, ptr) ==
    Eff(StoreBytes(mem, offset, ptr), <<Store(offset, 8), Wrote(offset)>>)

set_oop_at(offset, o) ==
    Eff(StoreBytes(mem, offset, o), <<Store(offset, 8), Wrote(offset)>>)

\* Prefix bytes of asm/assembler_x86.hpp (enum Prefix, enum PrefixBits).
REX         == \h40
REX_B       == \h41
REX_W       == \h48
REX_WB      == \h49
REX2        == \hD5
REX2BIT_W   == \h08
REX2BIT_WB  == \h09
REX2BIT_WB4 == \h18

\* The view at offset p from base begins with the two-byte REX2 prefix.
has_rex2_prefix(p) == ubyte_at(p) = REX2

MinusOne == <<255, 255, 255, 255, 255, 255, 255, 255>>
Zero8    == <<0, 0, 0, 0, 0, 0, 0, 0>>

-----------------------------------------------------------------------------
(* NativeCall                                                              *)

NativeCall_instruction_code      == \hE8
NativeCall_displacement_offset   == 1
NativeCall_return_address_offset == 5

return_address == addr_at(NativeCall_return_address_offset)

displacement == int_at(NativeCall_displacement_offset)

\* NativeCall::destination(), declared at line 127.
destination == AddB(return_address, SExt(displacement))

\* Mutant: the displacement is taken from the instruction's own address.
set_destination_from_instruction(dest) ==
    set_int_at(NativeCall_displacement_offset, Trunc32(SubB(dest, base)))

\* Mutant: the guarantee is missing and the truncated displacement is stored.
set_destination_unchecked(dest) ==
    set_int_at(NativeCall_displacement_offset,
               Trunc32(SubB(dest, return_address)))

set_destination(dest) ==
    LET disp == SubB(dest, return_address)
    IN  IF disp = SExt(Trunc32(disp))      \* guarantee(disp == (intptr_t)(jint)disp)
        THEN set_int_at(NativeCall_displacement_offset,
                        Trunc32(SubB(dest, return_address)))
        ELSE FatalEff

-----------------------------------------------------------------------------
(* NativeJump                                                              *)

NativeJump_instruction_code        == \hE9
NativeJump_data_offset             == 1
NativeJump_next_instruction_offset == 5

NativeJump_next_instruction_address == addr_at(NativeJump_next_instruction_offset)

\* Mutant: jump to self is not turned into the sentinel.
jump_destination_raw ==
    AddB(SExt(int_at(NativeJump_data_offset)), NativeJump_next_instruction_address)

jump_destination ==
    LET dest == AddB(SExt(int_at(NativeJump_data_offset)),
                     NativeJump_next_instruction_address)
    IN  IF dest = base THEN MinusOne ELSE dest

\* Mutant: the sentinel is encoded as a displacement of -1, not as jump to self.
set_jump_destination_minus_one(dest) ==
    set_int_at(NativeJump_data_offset,
               Trunc32(IF dest = MinusOne THEN MinusOne
                       ELSE SubB(dest, NativeJump_next_instruction_address)))

\* The assert is compiled only when ASSERT is defined.
set_jump_destination(dest) ==
    LET val0 == SubB(dest, NativeJump_next_instruction_address)
        val  == IF dest = MinusOne THEN Int2B(-5, 8) ELSE val0
        asserted == MaskHigh32(labs(val)) = Zero8 \/ dest = MinusOne
    IN  IF debug /\ ~asserted
        THEN FatalEff
        ELSE set_int_at(NativeJump_data_offset, Trunc32(val))


-----------------------------------------------------------------------------
(* NativeMovConstReg                                                       *)

rex_size  == 1
rex2_size == 2
wordSize  == 8

NativeMovConstReg_instruction_offset == 0
instruction_size_rex         == 1 + rex_size + wordSize
instruction_size_rex2        == 1 + rex2_size + wordSize
data_offset_rex              == 1 + rex_size
data_offset_rex2             == 1 + rex2_size
next_instruction_offset_rex  == instruction_size_rex
next_instruction_offset_rex2 == instruction_size_rex2
register_mask                == \h07

\* Bitwise and of two naturals.
RECURSIVE BitAnd(_, _)
BitAnd(x, y) ==
    IF x = 0 \/ y = 0 THEN 0
    ELSE (x % 2) * (y % 2) + 2 * BitAnd(x \div 2, y \div 2)

\* Accessors of the NativeMovConstReg view at offset p from base.
instruction_size(p) ==
    IF has_rex2_prefix(p) THEN instruction_size_rex2 ELSE instruction_size_rex

next_inst_offset(p) ==
    IF has_rex2_prefix(p) THEN next_instruction_offset_rex2
    ELSE next_instruction_offset_rex

\* Mutant: the data field is taken to sit behind a one-byte prefix always.
data_byte_offset_rex_only(p) == data_offset_rex

data_byte_offset(p) ==
    IF has_rex2_prefix(p) THEN data_offset_rex2 ELSE data_offset_rex

data == ptr_at(data_byte_offset(0))

set_data(x) == set_ptr_at(data_byte_offset(0), x)

is_mov_literal64(p) ==
    LET valid_rex_prefix  == ubyte_at(p) = REX_W \/ ubyte_at(p) = REX_WB
        valid_rex2_prefix == /\ ubyte_at(p) = REX2
                             /\ \/ ubyte_at(p + 1) = REX2BIT_W
                                \/ ubyte_at(p + 1) = REX2BIT_WB
                                \/ ubyte_at(p + 1) = REX2BIT_WB4
        opcode == IF has_rex2_prefix(p) THEN ubyte_at(p + 2) ELSE ubyte_at(p + 1)
    IN  /\ valid_rex_prefix \/ valid_rex2_prefix
        /\ BitAnd(opcode, 255 - register_mask) = \hB8

\* NativeMovConstReg::verify(), declared at line 236: fatal unless the bytes
\* are a REX.W or REX2.W mov reg64, imm64.
NativeMovConstReg_verify(p) == is_mov_literal64(p)

\* nativeMovConstReg_before(address), address = base + q: the offset from base
\* of the view it returns.  The prefix test reads the byte AT address.
nativeMovConstReg_before(q) ==
    LET size == IF has_rex2_prefix(q) THEN instruction_size_rex2
                ELSE instruction_size_rex
    IN  q - size - NativeMovConstReg_instruction_offset

-----------------------------------------------------------------------------
(* NativeMovRegMem                                                         *)

instruction_code_xor        == \h33
instruction_code_mem2reg    == \h8B
instruction_code_mem2regb   == \h8A
NativeMovRegMem_data_offset == 2

\* NativeMovRegMem::instruction_start(), declared at line 341: the real
\* instruction begins after one leading xor reg,reg (2 bytes), if present.
instruction_start == IF ubyte_at(0) = instruction_code_xor THEN 2 ELSE 0

\* NativeMovRegMem::patch_offset(), declared at line 368.
patch_offset == NativeMovRegMem_data_offset + instruction_start

NativeMovRegMem_offset == int_at(patch_offset)

set_offset(x) == set_int_at(patch_offset, x)

add_offset_in_bytes(add_offset) ==
    LET patch_off == patch_offset
    IN  set_int_at(patch_off, AddB(int_at(patch_off), add_offset))

-----------------------------------------------------------------------------
(* NativePostCallNop                                                       *)

NativePostCallNop_displacement_offset == 4

\* int_at(0) == 0x841f0f
check == int_at(0) = <<\h0F, \h1F, \h84, \h00>>

\* Mutant: the slot is taken from the arithmetic shift without the mask.
decode_unmasked(slot, cb) ==
    LET data_ == ToInt32(int_at(NativePostCallNop_displacement_offset))
    IN  IF data_ = 0
        THEN [ret |-> FALSE, oopmap_slot |-> slot, cb_offset |-> cb]
        ELSE [ret |-> TRUE,
              cb_offset   |-> data_ % 16777216,
              oopmap_slot |-> data_ \div 16777216]

\* decode(oopmap_slot, cb_offset): the result and the two out-parameters, which
\* hold slot and cb on entry.  data & 0xffffff and (data >> 24) & 0xff on a
\* signed int: the remainder and the floor quotient by 2^24.
decode(slot, cb) ==
    LET data_ == ToInt32(int_at(NativePostCallNop_displacement_offset))
    IN  IF data_ = 0
        THEN [ret |-> FALSE, oopmap_slot |-> slot, cb_offset |-> cb]
        ELSE [ret |-> TRUE,
              cb_offset   |-> data_ % 16777216,
              oopmap_slot |-> (data_ \div 16777216) % 256]

-----------------------------------------------------------------------------
(* Classifier predicates of the view at offset p from base                 *)

NativeIllegalInstruction_instruction_code == <<\h0F, \h0B>>
NativeCallReg_instruction_code  == \hFF
NativeReturn_instruction_code   == \hC3
NativeReturnX_instruction_code  == \hC2
instruction_rex_b_prefix        == REX_B
instruction_code_memXregl       == \h85
modrm_mask                      == \h38
modrm_reg                       == \h00

\* Mutant: only the first byte of the trap pattern is compared.
is_illegal_first_byte(p) ==
    ubyte_at(p) = NativeIllegalInstruction_instruction_code[1]

\* (short)int_at(0) == (short)0x0B0F: the low two bytes.
is_illegal(p) ==
    <<ubyte_at(p), ubyte_at(p + 1)>> = NativeIllegalInstruction_instruction_code

is_call(p) == ubyte_at(p) = NativeCall_instruction_code

is_call_reg(p) ==
    \/ ubyte_at(p) = NativeCallReg_instruction_code
    \/ /\ ubyte_at(p + 1) = NativeCallReg_instruction_code
       /\ (ubyte_at(p) = REX \/ ubyte_at(p) = REX_B)

is_return(p) ==
    \/ ubyte_at(p) = NativeReturn_instruction_code
    \/ ubyte_at(p) = NativeReturnX_instruction_code

is_jump(p) ==
    \/ ubyte_at(p) = NativeJump_instruction_code
    \/ ubyte_at(p) = \hEB

is_jump_reg(p) ==
    LET pos == IF ubyte_at(p) = REX_B THEN 1 ELSE 0
    IN  /\ ubyte_at(p + pos) = \hFF
        /\ BitAnd(ubyte_at(p + pos + 1), \hF0) = \hE0

\* (int_at(0) & 0xF0FF) == 0x800F, or (ubyte_at(0) & 0xF0) == 0x70
is_cond_jump(p) ==
    \/ /\ BitAnd(ubyte_at(p), \hFF) = \h0F
       /\ BitAnd(ubyte_at(p + 1), \hF0) = \h80
    \/ BitAnd(ubyte_at(p), \hF0) = \h70

is_safepoint_poll(p) ==
    LET has_rex_prefix == ubyte_at(p) = instruction_rex_b_prefix
        test_offset    == IF has_rex2_prefix(p) THEN 2
                          ELSE IF has_rex_prefix THEN 1 ELSE 0
        is_test_opcode == ubyte_at(p + test_offset) = instruction_code_memXregl
        is_rax_target  ==
            BitAnd(ubyte_at(p + test_offset + 1), modrm_mask) = modrm_reg
    IN  is_test_opcode /\ is_rax_target

\* The predicates that hold of the view at offset p.
Classification(p) ==
    { c \in {"is_call", "is_call_reg", "is_illegal", "is_return", "is_jump",
             "is_jump_reg", "is_cond_jump", "is_safepoint_poll",
             "is_mov_literal64"} :
        \/ c = "is_call"           /\ is_call(p)
        \/ c = "is_call_reg"       /\ is_call_reg(p)
        \/ c = "is_illegal"        /\ is_illegal(p)
        \/ c = "is_return"         /\ is_return(p)
        \/ c = "is_jump"           /\ is_jump(p)
        \/ c = "is_jump_reg"       /\ is_jump_reg(p)
        \/ c = "is_cond_jump"      /\ is_cond_jump(p)
        \/ c = "is_safepoint_poll" /\ is_safepoint_poll(p)
        \/ c = "is_mov_literal64"  /\ is_mov_literal64(p) }

-----------------------------------------------------------------------------
(* The installed instructions and the inputs of the operations             *)

\* A code buffer holding `bytes` at the view's address, `before` in front of it
\* and `after` behind it.
Image(bytes, before, after) ==
    [k \in Offsets |->
        IF k < 0 THEN before
        ELSE IF k < Len(bytes) THEN bytes[k + 1]
        ELSE after]

NOP == \h90

\* Addresses of views: in a code cache high in the user address space, at the
\* end of a 4 GB block (so that + 5 carries into the upper half), and low.
SiteHigh  == <<\h00, \h10, \h00, \h40, \h3F, \h7F, 0, 0>>
SiteCarry == <<\hFC, \hFF, \hFF, \hFF, \h3F, \h7F, 0, 0>>
SiteLow   == <<\h00, \h00, \h00, \h10, 0, 0, 0, 0>>
Sites     == {SiteHigh, SiteCarry, SiteLow}

Two31 == AddB(Int2B(2147483647, 8), Int2B(1, 8))
Two32 == AddB(Two31, Two31)

\* Signed distances from the next-instruction address to a requested target:
\* near ones, the ends of the signed 32-bit range, the first values beyond
\* them, and values whose low 32 bits look like a near distance.
Distances ==
    { Int2B(0, 8), Int2B(-5, 8), Int2B(256, 8), Int2B(-256, 8),
      Int2B(2147483647, 8), Two31,
      NegB(Two31), AddB(NegB(Two31), Int2B(-1, 8)),
      AddB(Two32, Int2B(16, 8)), NegB(Two32) }

Targets(next) == { AddB(next, k) : k \in Distances }

\* Displacements found in an installed call or jump.
Displacements ==
    { Int2B(0, 4), Int2B(-5, 4), Int2B(256, 4), Int2B(2147483647, 4),
      Trunc32(NegB(Two31)), Int2B(-268435462, 4) }

Calls == { <<NativeCall_instruction_code>> \o d : d \in Displacements }
Jumps == { <<NativeJump_instruction_code>> \o d : d \in Displacements }

\* mov reg64, imm64 under a REX.W / REX.WB prefix and under a REX2 prefix.
MovConstPrefixes ==
    { <<REX_W, \hB8>>, <<REX_WB, \hBB>>,
      <<REX2, REX2BIT_W, \hB8>>, <<REX2, REX2BIT_WB4, \hBF>> }

Pointers == {Zero8, MinusOne, SiteHigh}

MovConsts == { pre \o d : pre \in MovConstPrefixes, d \in {Zero8, SiteHigh} }

\* First byte of the instruction that follows a mov reg64, imm64.
FollowBytes == {NOP, REX2, NativeReturn_instruction_code}

\* mov eax, [rax + d], and xor eax, eax ; mov al, [rax + d].
MovRegMems ==
    { pre \o d : pre \in { <<instruction_code_mem2reg, \h80>>,
                           <<instruction_code_xor, \hC0,
                             instruction_code_mem2regb, \h80>> },
                 d \in {Int2B(0, 4), Int2B(16, 4)} }

Ints == {Int2B(8, 4), Int2B(-8, 4), Int2B(2147483647, 4)}

\* Payloads of a post-call nop: absent, the documented example, top bit set,
\* a zero offset with a non-zero slot and the reverse, all ones.
Payloads ==
    { <<0, 0, 0, 0>>, <<\h23, \h01, 0, 5>>, <<0, 0, 0, \h80>>, <<0, 0, 0, 1>>,
      <<1, 0, 0, 0>>, <<255, 255, 255, 0>>, <<255, 255, 255, 255>>,
      <<0, 0, 0, 255>> }

PostCallNops == { <<\h0F, \h1F, \h84, \h00>> \o d : d \in Payloads }

Installed ==
         { [kind |-> "call", bytes |-> b, after |-> NOP] : b \in Calls }
    \cup { [kind |-> "jump", bytes |-> b, after |-> NOP] : b \in Jumps }
    \cup { [kind |-> "movconst", bytes |-> b, after |-> f] :
              b \in MovConsts, f \in FollowBytes }
    \cup { [kind |-> "movregmem", bytes |-> b, after |-> NOP] : b \in MovRegMems }
    \cup { [kind |-> "postcallnop", bytes |-> b, after |-> NOP] :
              b \in PostCallNops }
    \cup { [kind |-> "raw", bytes |-> <<NOP>>, after |-> NOP] }

-----------------------------------------------------------------------------
(* The operations on one view                                              *)

\* One operation `name` with argument a, effect eff and result r.
Op(name, a, eff, r) ==
    /\ status = "ok"
    /\ Len(hist) < MaxOps
    /\ mem' = eff.mem
    /\ log' = log \o eff.ev
    /\ status' = IF eff.fatal THEN "fatal" ELSE "ok"
    /\ hist' = Append(hist, [op |-> name, arg |-> a,
                             ret |-> IF eff.fatal THEN <<>> ELSE r,
                             fatal |-> eff.fatal, mem0 |-> mem, ev |-> eff.ev])
    /\ UNCHANGED <<kind, base, debug, flags, code_buffer, old_code, todo, fetched>>

SetDestination ==
    /\ kind = "call"
    /\ \E dest \in Targets(return_address) :
          Op("set_destination", dest, set_destination(dest), <<>>)
    /\ UNCHANGED <<oopmap_slot, cb_offset>>

Destination ==
    /\ kind = "call"
    /\ Op("destination", <<>>, NoEff, destination)
    /\ UNCHANGED <<oopmap_slot, cb_offset>>

SetJumpDestination ==
    /\ kind = "jump"
    /\ \E dest \in Targets(NativeJump_next_instruction_address) \cup {MinusOne} :
          Op("set_jump_destination", dest, set_jump_destination(dest), <<>>)
    /\ UNCHANGED <<oopmap_slot, cb_offset>>

JumpDestination ==
    /\ kind = "jump"
    /\ Op("jump_destination", <<>>, NoEff, jump_destination)
    /\ UNCHANGED <<oopmap_slot, cb_offset>>

SetData ==
    /\ kind = "movconst"
    /\ \E x \in Pointers : Op("set_data", x, set_data(x), <<>>)
    /\ UNCHANGED <<oopmap_slot, cb_offset>>

Data ==
    /\ kind = "movconst"
    /\ Op("data", <<>>, NoEff, data)
    /\ UNCHANGED <<oopmap_slot, cb_offset>>

\* nativeMovConstReg_before(m->next_instruction_address()) for the installed
\* mov m at base; with ASSERT the returned view is verified.
MovConstRegBefore ==
    /\ kind = "movconst"
    /\ LET q == next_inst_offset(0)
           t == nativeMovConstReg_before(q)
       IN  Op("nativeMovConstReg_before", addr_at(q),
              IF debug /\ ~NativeMovConstReg_verify(t) THEN FatalEff ELSE NoEff,
              addr_at(t))
    /\ UNCHANGED <<oopmap_slot, cb_offset>>

SetOffset ==
    /\ kind = "movregmem"
    /\ \E x \in Ints : Op("set_offset", x, set_offset(x), <<>>)
    /\ UNCHANGED <<oopmap_slot, cb_offset>>

AddOffsetInBytes ==
    /\ kind = "movregmem"
    /\ \E x \in Ints \ {Int2B(2147483647, 4)} :
          Op("add_offset_in_bytes", x, add_offset_in_bytes(x), <<>>)
    /\ UNCHANGED <<oopmap_slot, cb_offset>>

Offset ==
    /\ kind = "movregmem"
    /\ Op("offset", <<>>, NoEff, NativeMovRegMem_offset)
    /\ UNCHANGED <<oopmap_slot, cb_offset>>

\* decode(oopmap_slot, cb_offset) on the slot nativePostCallNop_at accepted.
Decode ==
    /\ kind = "postcallnop"
    /\ check
    /\ LET r == decode(oopmap_slot, cb_offset)
       IN  /\ Op("decode", <<oopmap_slot, cb_offset>>, NoEff,
                 <<IF r.ret THEN 1 ELSE 0, r.oopmap_slot, r.cb_offset>>)
           /\ oopmap_slot' = r.oopmap_slot
           /\ cb_offset' = r.cb_offset

\* The protected primitives with no caller in this file.
SetCharAt ==
    /\ kind = "raw"
    /\ \E offset \in {0, 3}, c \in {\hCC, \hF4} :
          Op("set_char_at", <<c>>, set_char_at(offset, c), <<>>)
    /\ UNCHANGED <<oopmap_slot, cb_offset>>

SetOopAt ==
    /\ kind = "raw"
    /\ \E offset \in {0, 2}, o \in Pointers :
          Op("set_oop_at", o, set_oop_at(offset, o), <<>>)
    /\ UNCHANGED <<oopmap_slot, cb_offset>>

Init ==
    /\ \E i \in Installed :
          /\ kind = i.kind
          /\ mem = Image(i.bytes, NOP, i.after)
    /\ base \in Sites
    /\ debug \in BOOLEAN
    /\ status = "ok"
    /\ log = <<>>
    /\ hist = <<>>
    /\ oopmap_slot = -7
    /\ cb_offset = -9
    /\ flags = {}
    /\ code_buffer = <<>>
    /\ old_code = <<>>
    /\ todo = <<>>
    /\ fetched = <<>>

Next ==
    \/ SetDestination
    \/ Destination
    \/ SetJumpDestination
    \/ JumpDestination
    \/ SetData
    \/ Data
    \/ MovConstRegBefore
    \/ SetOffset
    \/ AddOffsetInBytes
    \/ Offset
    \/ Decode
    \/ SetCharAt
    \/ SetOopAt

Spec == Init /\ [][Next]_vars


-----------------------------------------------------------------------------
(* NativeCallReg: FF /2 behind no prefix, a REX prefix or a REX2 prefix    *)

return_address_offset_norex == 2
return_address_offset_rex   == 3
return_address_offset_rex2  == 4

\* nativeInst_x86.hpp:195-204.  The last branch is taken for every first byte
\* that is neither the opcode nor REX2; its assert exists in debug builds only.
NativeCallReg_next_instruction_offset(p) ==
    IF ubyte_at(p) = NativeCallReg_instruction_code
    THEN [ret |-> return_address_offset_norex, asserted |-> TRUE]
    ELSE IF has_rex2_prefix(p)
    THEN [ret |-> return_address_offset_rex2, asserted |-> TRUE]
    ELSE [ret |-> return_address_offset_rex,
          asserted |-> BitAnd(ubyte_at(p), \hF0) = REX]

-----------------------------------------------------------------------------
(* Classification of arbitrary bytes                                       *)

\* Bytes tried at offsets 0, 1, 2 and 3: every byte at offset 0; behind it
\* every opcode, prefix payload and ModRM value a classifier compares with,
\* and bytes that match none.
FirstBytes == Byte
SecondBytes ==
    { \h0B, \h80, \h8F, \h85, \h08, \h09, \h18, \hB8, \hBF, \hFF, \h00, \hE0,
      \h48, \h90, \h70, \hE8, \hC3, \h10 }
ThirdBytes  == { \h85, \hB8, \hBF, \h00, \h38, \hE0, \hFF, \h0B, \h90, \h05 }
FourthBytes == { \h00, \h38, \h05, \hE0, \h90, \hD0 }

InitClassify ==
    /\ kind = "raw"
    /\ \E b0 \in FirstBytes, b1 \in SecondBytes, b2 \in ThirdBytes,
          b3 \in FourthBytes :
          mem = Image(<<b0, b1, b2, b3>>, NOP, NOP)
    /\ base = SiteHigh
    /\ debug \in BOOLEAN
    /\ status = "ok"
    /\ log = <<>>
    /\ hist = <<>>
    /\ oopmap_slot = -7
    /\ cb_offset = -9
    /\ flags = {}
    /\ code_buffer = <<>>
    /\ old_code = <<>>
    /\ todo = <<>>
    /\ fetched = <<>>

\* The caller asks every classifier about the bytes at base.
Classify ==
    /\ kind = "raw"
    /\ hist = <<>>
    /\ flags' = Classification(0)
    /\ hist' = <<[op |-> "classify", arg |-> <<>>, ret |-> <<>>,
                  fatal |-> FALSE, mem0 |-> mem, ev |-> <<>>]>>
    /\ UNCHANGED <<kind, base, mem, debug, status, log, oopmap_slot, cb_offset,
                   code_buffer, old_code, todo, fetched>>

\* The caller then takes the same bytes as a NativeCallReg and asks for the
\* offset of the instruction behind it.
NextInstructionOffset ==
    /\ kind = "raw"
    /\ Len(hist) = 1
    /\ LET n == NativeCallReg_next_instruction_offset(0)
       IN  Op("next_instruction_offset", <<>>,
              IF debug /\ ~n.asserted THEN FatalEff ELSE NoEff, <<n.ret>>)
    /\ UNCHANGED <<oopmap_slot, cb_offset>>

NextClassify == Classify \/ NextInstructionOffset

SpecClassify == InitClassify /\ [][NextClassify]_vars

-----------------------------------------------------------------------------
(* replace_mt_safe against concurrent readers                              *)

\* Mutant: the five bytes go out as a 4-byte store and a 1-byte store.
replace_mt_safe_two_stores(buf) ==
    << [step |-> "store", off |-> 0, bytes |-> SubSeq(buf, 1, 4)],
       [step |-> "store", off |-> 4, bytes |-> SubSeq(buf, 5, 5)],
       [step |-> "wrote", off |-> 0, bytes |-> <<>>] >>

\* NativeCall::replace_mt_safe / NativeGeneralJump::replace_mt_safe(instr_addr,
\* code_buffer), declared at lines 161 and 481: the patcher's steps.  One
\* store the hardware makes visible as a whole, then the coherency hook.
replace_mt_safe(buf) ==
    << [step |-> "store", off |-> 0, bytes |-> buf],
       [step |-> "wrote", off |-> 0, bytes |-> <<>>] >>

Readers == 1..NReaders

\* The 5-byte instructions a site holds before and after the patch.
PatchCodes ==
    { <<opc>> \o d : opc \in {NativeCall_instruction_code, NativeJump_instruction_code},
                     d \in {Int2B(-5, 4), Int2B(256, 4), <<\h78, \h56, \h34, \h12>>} }

\* What a reader makes of five fetched bytes: the kind and the target.
DecodeBytes(b) ==
    << IF b[1] = NativeCall_instruction_code THEN "call"
       ELSE IF b[1] = NativeJump_instruction_code THEN "jump" ELSE "other",
       AddB(addr_at(5), SExt(SubSeq(b, 2, 5))) >>

InitPatch ==
    /\ old_code \in PatchCodes
    /\ code_buffer \in PatchCodes \ {old_code}
    /\ kind = IF old_code[1] = NativeCall_instruction_code THEN "call" ELSE "jump"
    /\ mem = Image(old_code, NOP, NOP)
    /\ base = SiteHigh
    /\ debug \in BOOLEAN
    /\ status = "ok"
    /\ log = <<>>
    /\ hist = <<>>
    /\ oopmap_slot = -7
    /\ cb_offset = -9
    /\ flags = {}
    /\ todo = replace_mt_safe(code_buffer)
    /\ fetched = [r \in Readers |-> [bytes |-> <<>>, insn |-> <<>>]]

PatcherStore ==
    /\ todo # <<>>
    /\ Head(todo).step = "store"
    /\ mem' = StoreBytes(mem, Head(todo).off, Head(todo).bytes)
    /\ log' = Append(log, Store(Head(todo).off, Len(Head(todo).bytes)))
    /\ todo' = Tail(todo)
    /\ UNCHANGED <<kind, base, debug, status, hist, oopmap_slot, cb_offset,
                   flags, code_buffer, old_code, fetched>>

PatcherWrote ==
    /\ todo # <<>>
    /\ Head(todo).step = "wrote"
    /\ log' = Append(log, Wrote(Head(todo).off))
    /\ todo' = Tail(todo)
    /\ UNCHANGED <<kind, base, mem, debug, status, hist, oopmap_slot, cb_offset,
                   flags, code_buffer, old_code, fetched>>

\* A reader fetches the instruction at instr_addr.
Fetch(r) ==
    /\ fetched' = [fetched EXCEPT ![r] =
                      [bytes |-> [i \in 1..5 |-> mem[i - 1]], insn |-> <<>>]]
    /\ UNCHANGED <<kind, base, mem, debug, status, log, hist, oopmap_slot,
                   cb_offset, flags, code_buffer, old_code, todo>>

\* A reader decodes what it fetched.
DecodeFetched(r) ==
    /\ fetched[r].bytes # <<>>
    /\ fetched[r].insn = <<>>
    /\ fetched' = [fetched EXCEPT ![r].insn = DecodeBytes(fetched[r].bytes)]
    /\ UNCHANGED <<kind, base, mem, debug, status, log, hist, oopmap_slot,
                   cb_offset, flags, code_buffer, old_code, todo>>

NextPatch ==
    \/ PatcherStore
    \/ PatcherWrote
    \/ \E r \in Readers : Fetch(r)
    \/ \E r \in Readers : DecodeFetched(r)

SpecPatch == InitPatch /\ [][NextPatch]_vars

-----------------------------------------------------------------------------
(* Properties                                                              *)

\* The memory operation i of the history left behind.
MemAfter(i) == IF i < Len(hist) THEN hist[i + 1].mem0 ELSE mem

\* The events of the first n operations of the history, in order.
RECURSIVE Events(_)
Events(n) == IF n = 0 THEN <<>> ELSE Events(n - 1) \o hist[n].ev

\* The 4 bytes at offset 1 of memory m (the data field of a call or jump).
Field(m) == <<m[1], m[2], m[3], m[4]>>

\* The address a + 5 + d a call or jump with the data field of m transfers to.
Stored(m) == AddB(AddB(base, Int2B(5, 8)), SExt(Field(m)))

\* The signed distance from a + 5 to address t.
Distance(t) == SubB(t, AddB(base, Int2B(5, 8)))

(* C2: for a NativeCall at a and a target t with t - (a + 5) in the signed    *)
(* 32-bit range, set_destination(t) succeeds and a following destination()    *)
(* returns t.                                                                 *)
C2_SetDestinationRoundTrip ==
    \A i \in 1..Len(hist) :
        (hist[i].op = "set_destination" /\ InRange32(Distance(hist[i].arg)))
        => /\ ~hist[i].fatal
           /\ (i < Len(hist) /\ hist[i + 1].op = "destination")
                 => hist[i + 1].ret = hist[i].arg

C2_Witness ==
    /\ Len(hist) = 2
    /\ hist[1].op = "set_destination"
    /\ Distance(hist[1].arg) = Int2B(2147483647, 8)
    /\ hist[1].mem0 # hist[2].mem0
    /\ hist[2].op = "destination"
    /\ hist[2].ret = hist[1].arg

(* C3: for a NativeCall at a and a target t with t - (a + 5) outside the      *)
(* signed 32-bit range, set_destination(t) ends in the fatal error, leaves    *)
(* every byte unchanged and does not invoke wrote().                          *)
C3_OutOfRangeIsFatalAndWritesNothing ==
    \A i \in 1..Len(hist) :
        (hist[i].op = "set_destination" /\ ~InRange32(Distance(hist[i].arg)))
        => /\ hist[i].fatal
           /\ status = "fatal"
           /\ hist[i].ev = <<>>
           /\ MemAfter(i) = hist[i].mem0
           /\ log = Events(i - 1)

C3_Witness ==
    /\ Len(hist) = 1
    /\ hist[1].op = "set_destination"
    /\ Distance(hist[1].arg) = AddB(Two32, Int2B(16, 8))
    /\ Field(hist[1].mem0) # Int2B(16, 4)
    /\ hist[1].fatal
    /\ mem = hist[1].mem0
    /\ log = <<>>

(* C4 as claimed: jump_destination() returns the sentinel -1 if and only if   *)
(* the stored destination a + 5 + d equals a, and returns a + 5 + d in every  *)
(* other case.                                                                *)
C4_SentinelIffJumpToSelf ==
    \A i \in 1..Len(hist) :
        hist[i].op = "jump_destination"
        => /\ (hist[i].ret = MinusOne) <=> (Stored(hist[i].mem0) = base)
           /\ Stored(hist[i].mem0) # base => hist[i].ret = Stored(hist[i].mem0)

(* C4 as amended: jump_destination() returns a + 5 + d (modulo 2^64) unless   *)
(* that equals a, when it returns -1; so it returns -1 if and only if the     *)
(* stored destination is a or is the address -1 itself.                       *)
C4_SentinelIffSelfOrMinusOne ==
    \A i \in 1..Len(hist) :
        hist[i].op = "jump_destination"
        => /\ (hist[i].ret = MinusOne)
                 <=> (Stored(hist[i].mem0) \in {base, MinusOne})
           /\ Stored(hist[i].mem0) # base => hist[i].ret = Stored(hist[i].mem0)

C4_Witness ==
    /\ Len(hist) = 1
    /\ hist[1].op = "jump_destination"
    /\ Field(hist[1].mem0) = Int2B(-5, 4)
    /\ hist[1].ret = MinusOne

(* C5: set_jump_destination((address)-1) stores the displacement -5 whatever  *)
(* the field held before, and a following jump_destination() returns -1.      *)
C5_SentinelRoundTrip ==
    \A i \in 1..Len(hist) :
        (hist[i].op = "set_jump_destination" /\ hist[i].arg = MinusOne)
        => /\ ~hist[i].fatal
           /\ Field(MemAfter(i)) = Int2B(-5, 4)
           /\ (i < Len(hist) /\ hist[i + 1].op = "jump_destination")
                 => hist[i + 1].ret = MinusOne

C5_Witness ==
    /\ Len(hist) = 2
    /\ hist[1].op = "set_jump_destination"
    /\ hist[1].arg = MinusOne
    /\ Field(hist[1].mem0) = Int2B(2147483647, 4)
    /\ hist[2].op = "jump_destination"
    /\ hist[2].ret = MinusOne

(* C6: for a destination other than -1, set_jump_destination(dest) either     *)
(* fails fatally or stores d with a + 5 + d = dest; when dest - (a + 5) is    *)
(* outside the signed 32-bit range it fails and stores nothing.               *)
C6_JumpRangeViolationIsFatal ==
    \A i \in 1..Len(hist) :
        (hist[i].op = "set_jump_destination" /\ hist[i].arg # MinusOne)
        => /\ hist[i].fatal \/ Stored(MemAfter(i)) = hist[i].arg
           /\ ~InRange32(Distance(hist[i].arg))
                 => (hist[i].fatal /\ MemAfter(i) = hist[i].mem0)


\* The operations that write instruction bytes through the view.
Mutators ==
    { "set_char_at", "set_oop_at", "set_destination", "set_jump_destination",
      "set_data", "set_offset", "add_offset_in_bytes" }

(* C7: every store made through the view is followed at once by exactly one   *)
(* wrote(offset) with the store's offset, inside the operation that made the  *)
(* store; memory changes only by such a store.                                *)
C7_EveryStoreIsFollowedByWrote ==
    /\ log = Events(Len(hist))
    /\ \A i \in 1..Len(hist) :
          LET e == hist[i].ev
          IN  /\ Len(e) \in {0, 2}
              /\ Len(e) = 2 => (e[1].ev = "store" /\ e[2] = Wrote(e[1].off))
              /\ (hist[i].op \in Mutators /\ ~hist[i].fatal) => Len(e) = 2
              /\ MemAfter(i) # hist[i].mem0 => Len(e) = 2

C7_Witness ==
    /\ Len(hist) = 2
    /\ hist[1].op = "add_offset_in_bytes"
    /\ hist[2].op = "set_offset"
    /\ log = <<Store(4, 4), Wrote(4), Store(4, 4), Wrote(4)>>
    /\ hist[1].mem0 # hist[2].mem0

\* The payload of the post-call nop in memory m.
Payload(m) == <<m[4], m[5], m[6], m[7]>>

(* C9: decode returns false exactly when the payload is zero and then leaves  *)
(* both out-parameters alone; otherwise it returns true with cb_offset the    *)
(* low 24 bits and oopmap_slot the top 8 bits of the payload.                 *)
C9_DecodeSplitsPayload ==
    \A i \in 1..Len(hist) :
        hist[i].op = "decode"
        => LET pl   == Payload(hist[i].mem0)
               ok   == hist[i].ret[1] = 1
               slot == hist[i].ret[2]
               cb   == hist[i].ret[3]
           IN  /\ ~ok <=> pl = <<0, 0, 0, 0>>
               /\ ~ok => <<slot, cb>> = hist[i].arg
               /\ ok => /\ cb = pl[1] + 256 * pl[2] + 65536 * pl[3]
                        /\ slot = pl[4]
                        /\ <<cb % 256, (cb \div 256) % 256, cb \div 65536, slot>> = pl

C9_Witness ==
    /\ Len(hist) = 2
    /\ hist[1].op = "decode"
    /\ Payload(hist[1].mem0) = <<255, 255, 255, 255>>
    /\ hist[1].ret = <<1, 255, 16777215>>
    /\ hist[2].op = "decode"
    /\ oopmap_slot = 255
    /\ cb_offset = 16777215

(* C10: nativeMovConstReg_before(m.next_instruction_address()) returns the    *)
(* view at m's own start address, for the REX and the REX2 encoding of m and  *)
(* whatever instruction follows m.                                            *)
C10_BeforeFindsTheMov ==
    \A i \in 1..Len(hist) :
        hist[i].op = "nativeMovConstReg_before"
        => (~hist[i].fatal /\ hist[i].ret = base)


Exclusive ==
    { "is_call", "is_return", "is_jump", "is_cond_jump", "is_illegal",
      "is_safepoint_poll", "is_mov_literal64" }

(* C8: of is_call, is_return, is_jump, is_cond_jump, is_illegal,              *)
(* is_safepoint_poll and is_mov_literal64 at most one holds of any bytes; in  *)
(* particular never both is_call and is_return.                               *)
C8_ClassifiersExclusive ==
    hist # <<>>
    => /\ Cardinality(flags \cap Exclusive) <= 1
       /\ ~({"is_call", "is_return"} \subseteq flags)

C8_Witness ==
    /\ hist # <<>>
    /\ flags = {"is_safepoint_poll"}
    /\ mem[0] = REX2
    /\ mem[2] = instruction_code_memXregl


(* C11: no bytes satisfy both is_call_reg and is_jump_reg, with or without a  *)
(* leading REX / REX_B prefix byte.                                           *)
C11_CallRegAndJumpRegExclusive ==
    hist # <<>> => ~({"is_call_reg", "is_jump_reg"} \subseteq flags)


\* Number of prefix bytes in front of the opcode at base, and whether the
\* bytes there are FF /2 behind that prefix.
CallRegPrefixBytes ==
    IF ubyte_at(0) = REX2 THEN 2
    ELSE IF BitAnd(ubyte_at(0), \hF0) = REX THEN 1 ELSE 0

CallRegEncoding ==
    /\ ubyte_at(CallRegPrefixBytes) = NativeCallReg_instruction_code
    /\ BitAnd(ubyte_at(CallRegPrefixBytes + 1), modrm_mask) = \h10

(* C12: for FF /2 behind no prefix, behind a one-byte REX prefix and behind  *)
(* a two-byte REX2 prefix, is_call_reg holds and next_instruction_offset     *)
(* returns 2 plus the number of prefix bytes.                                *)
C12_CallRegRecognisedAndSized ==
    \A i \in 1..Len(hist) :
        (hist[i].op = "next_instruction_offset" /\ CallRegEncoding) =>
            /\ "is_call_reg" \in flags
            /\ ~hist[i].fatal
            /\ hist[i].ret = <<2 + CallRegPrefixBytes>>


\* The operations that patch the data field of an installed instruction.
DataPatches == {"set_destination", "set_jump_destination", "set_data"}

\* The history is a non-empty sequence of successful data-field patches.
OnlyDataPatches ==
    /\ hist # <<>>
    /\ \A i \in 1..Len(hist) : hist[i].op \in DataPatches /\ ~hist[i].fatal

\* Whether the instruction in memory m carries the REX2 prefix, and the
\* offsets of the data field of the instruction in m.
Rex2In(m) == m[0] = REX2

DataField(m) ==
    IF kind = "call"
    THEN NativeCall_displacement_offset..(NativeCall_displacement_offset + 3)
    ELSE IF kind = "jump"
    THEN NativeJump_data_offset..(NativeJump_data_offset + 3)
    ELSE IF Rex2In(m)
    THEN data_offset_rex2..(data_offset_rex2 + wordSize - 1)
    ELSE data_offset_rex..(data_offset_rex + wordSize - 1)

(* C13: after any sequence of successful set_destination, set_jump_destination *)
(* or set_data patches on an installed call, jump or mov reg64, imm64, every   *)
(* byte outside the instruction's data field is as it was before the sequence, *)
(* is_call, is_jump or is_mov_literal64 still holds, and the size, the data    *)
(* offset and the next-instruction offset are those of the original prefix.    *)
C13_PatchesKeepTheShape ==
    OnlyDataPatches =>
        LET m0 == hist[1].mem0
        IN  /\ \A o \in Offsets \ DataField(m0) : mem[o] = m0[o]
            /\ kind = "call" => is_call(0)
            /\ kind = "jump" => is_jump(0)
            /\ kind = "movconst" =>
                  /\ is_mov_literal64(0)
                  /\ instruction_size(0) =
                        IF Rex2In(m0) THEN instruction_size_rex2
                        ELSE instruction_size_rex
                  /\ data_byte_offset(0) =
                        IF Rex2In(m0) THEN data_offset_rex2 ELSE data_offset_rex
                  /\ next_inst_offset(0) =
                        IF Rex2In(m0) THEN next_instruction_offset_rex2
                        ELSE next_instruction_offset_rex

C13_Witness ==
    /\ OnlyDataPatches
    /\ Len(hist) = 2
    /\ hist[1].op = "set_data"
    /\ hist[2].op = "set_data"
    /\ Rex2In(hist[1].mem0)
    /\ hist[1].mem0 # hist[2].mem0
    /\ hist[2].mem0 # mem


====
